---- MODULE Spec2Model ----
(***************************************************************************)
(* FileProvider (file_provider/file_provider.py): a facade that saves,     *)
(* updates and retrieves named datasets on the local filesystem or in an   *)
(* S3 bucket, as CSV, Parquet or JSON.                                     *)
(*                                                                         *)
(* Stored content is modelled at the level of lexical tokens: a file or an *)
(* S3 object is a sequence of tokens [k |-> class, s |-> text].  A CSV     *)
(* cell is a token of class "text" whatever Python type produced it (CSV   *)
(* carries no type), a JSON literal keeps its lexical class (string,       *)
(* number, null), a Parquet cell keeps its column's physical type.         *)
(* Python values are [t |-> type name, v |-> repr text].                   *)
(***************************************************************************)
EXTENDS Integers, Sequences, FiniteSets, TLC

VARIABLES
    dirs,       \* local filesystem: the directories that exist
    files,      \* local filesystem: path -> content, for the files that exist
    objects,    \* the S3 bucket: key -> content, for the objects that exist
    creds,      \* whether the S3 client can resolve credentials
    provider,   \* the FileProvider instance: "none" before construction
    last,       \* the last call on the provider: arguments, outcome, I/O issued
    ncalls,     \* number of save/update/retrieve calls made so far
    writers,    \* concurrent save_file calls in flight (writer id -> frame)
    order       \* the writers in the order their write or put completed

vars == <<dirs, files, objects, creds, provider, last, ncalls, writers, order>>

-----------------------------------------------------------------------------
(* Bounds *)

\* Number of save/update/retrieve calls made in one behaviour.
MaxCalls == 2

-----------------------------------------------------------------------------
(* Python values and datasets *)

Val(t, v) == [t |-> t, v |-> v]
PyStr(s) == Val("str", s)
PyInt(s) == Val("int", s)
PyFloat(s) == Val("float", s)
PyNone == Val("NoneType", "None")
NaN == Val("float", "nan")

\* Decimal texts of the integers that occur, and the repr of float(int).
IntTexts == {"25", "30"}
FloatOf(s) == s \o ".0"
FloatTexts == {FloatOf(s) : s \in IntTexts}

\* Python ==: an int equals the float of the same value, nan equals nothing.
PyEq(a, b) ==
    /\ a # NaN
    /\ b # NaN
    /\ \/ a = b
       \/ a.t = "int" /\ b.t = "float" /\ b.v = FloatOf(a.v)
       \/ a.t = "float" /\ b.t = "int" /\ a.v = FloatOf(b.v)

\* list-of-dict equality.
DataEq(d, e) ==
    /\ Len(d) = Len(e)
    /\ \A i \in 1..Len(d) :
          /\ DOMAIN d[i] = DOMAIN e[i]
          /\ \A f \in DOMAIN d[i] : PyEq(d[i][f], e[i][f])

\* Every input dict was built with its keys inserted in this order.
FieldOrder == <<"name", "age">>

InSeq(x, s) == \E i \in 1..Len(s) : s[i] = x

\* The keys of a dict in insertion order.
Keys(r) == SelectSeq(FieldOrder, LAMBDA f : f \in DOMAIN r)

Rec2(n, a) == ("name" :> n) @@ ("age" :> a)

\* The datasets the calls draw from (non-empty lists of non-empty records).
DExample == <<Rec2(PyStr("Alice"), PyInt("30")), Rec2(PyStr("Bob"), PyInt("25"))>>
DText == <<Rec2(PyStr("Alice"), PyStr("30"))>>
DRagged == <<Rec2(PyStr("Alice"), PyInt("30")), ("name" :> PyStr("Bob"))>>
DMixed == <<Rec2(PyStr("Alice"), PyInt("30")), Rec2(PyStr("Bob"), PyStr("unknown"))>>
Datasets == {DExample, DText, DRagged, DMixed}

-----------------------------------------------------------------------------
(* Tokens *)

Tok(k, s) == [k |-> k, s |-> s]
COMMA == Tok("punct", ",")
NL == Tok("punct", "\n")
COLON == Tok("punct", ":")
LBRACKET == Tok("punct", "[")
RBRACKET == Tok("punct", "]")
LBRACE == Tok("punct", "{")
RBRACE == Tok("punct", "}")

RECURSIVE Split(_, _)
\* s split at every occurrence of sep (str.split): always at least one piece.
Split(s, sep) ==
    IF s = <<>> THEN << <<>> >>
    ELSE LET rest == Split(Tail(s), sep)
         IN  IF Head(s) = sep THEN << <<>> >> \o rest
             ELSE << <<Head(s)>> \o rest[1] >> \o Tail(rest)

RECURSIVE Join(_, _)
\* The pieces of ss with sep between them.
Join(ss, sep) ==
    IF ss = <<>> THEN <<>>
    ELSE IF Len(ss) = 1 THEN ss[1]
    ELSE ss[1] \o <<sep>> \o Join(Tail(ss), sep)

-----------------------------------------------------------------------------
(* pandas.DataFrame *)

RECURSIVE ColumnsFrom(_, _, _)
ColumnsFrom(data, i, acc) ==
    IF i > Len(data) THEN acc
    ELSE ColumnsFrom(data, i + 1,
             acc \o SelectSeq(Keys(data[i]), LAMBDA f : ~InSeq(f, acc)))

\* Column labels: the union of the records' keys, in order of first appearance.
Columns(data) == ColumnsFrom(data, 1, <<>>)

\* The dtype pandas infers for a column of Python objects.
InferDtype(vs) ==
    IF vs # {} /\ \A v \in vs : v.t = "int" THEN "int64"
    ELSE IF /\ \A v \in vs : v.t \in {"int", "float", "NoneType"}
            /\ \E v \in vs : v.t \in {"int", "float"}
         THEN "float64"
    ELSE "object"

\* A cell cast to its column's dtype.
Cast(v, dtype) ==
    IF dtype = "float64"
    THEN IF v.t = "int" THEN PyFloat(FloatOf(v.v))
         ELSE IF v.t = "NoneType" THEN NaN
         ELSE v
    ELSE v

\* pd.DataFrame(data) for a list of dicts: a missing key is NaN.
DataFrame(data) ==
    LET cols == Columns(data)
        colset == {cols[j] : j \in 1..Len(cols)}
        cell == [i \in 1..Len(data) |->
                    [f \in colset |-> IF f \in DOMAIN data[i] THEN data[i][f] ELSE NaN]]
        dt == [f \in colset |-> InferDtype({cell[i][f] : i \in 1..Len(data)})]
    IN  [columns |-> cols,
         dtypes |-> dt,
         rows |-> [i \in 1..Len(data) |-> [f \in colset |-> Cast(cell[i][f], dt[f])]]]

\* DataFrame.to_dict('records')
to_dict_records(df) == df.rows

-----------------------------------------------------------------------------
(* CSV: DataFrame.to_csv(index=False) and pandas.read_csv *)

\* Texts read_csv takes for a missing value (its default na_values, in part).
NaTexts == {"", "NA", "N/A", "NaN", "nan", "null", "NULL"}

\* The text to_csv writes for a cell: str() of the value, na_rep = "" for NaN/None.
CsvText(v) == IF v.t = "NoneType" \/ v = NaN THEN "" ELSE v.v

\* One field of a line: an empty field is no character at all, except that the
\* only field of a line is written quoted ("") so that the line is not blank.
CsvField(text, ncols) ==
    IF text # "" THEN <<Tok("text", text)>>
    ELSE IF ncols = 1 THEN <<Tok("text", "")>>
    ELSE <<>>

to_csv(df) ==
    LET cols == df.columns
        n == Len(cols)
        header == Join([j \in 1..n |-> CsvField(cols[j], n)], COMMA)
        line(i) == Join([j \in 1..n |-> CsvField(CsvText(df.rows[i][cols[j]]), n)],
                        COMMA)
    IN  Join(<<header>> \o [i \in 1..Len(df.rows) |-> line(i)], NL) \o <<NL>>

\* A reader that infers nothing (dtype=str): every column is text.
CsvDtype_object(texts) == "object"

\* The dtype read_csv infers for a column from its texts.
CsvDtype(texts) ==
    LET present == texts \ NaTexts
    IN  IF texts = {} THEN "object"
        ELSE IF present = {} THEN "float64"
        ELSE IF present \subseteq IntTexts
             THEN IF present = texts THEN "int64" ELSE "float64"
        ELSE IF present \subseteq IntTexts \cup FloatTexts THEN "float64"
        ELSE "object"

\* A text parsed as its column's dtype.
CsvValue(text, dtype) ==
    IF dtype = "int64" THEN PyInt(text)
    ELSE IF text \in NaTexts THEN NaN
    ELSE IF dtype = "float64"
         THEN IF text \in IntTexts THEN PyFloat(FloatOf(text)) ELSE PyFloat(text)
    ELSE PyStr(text)

\* pd.read_csv(StringIO(content)): blank lines are skipped, the first line is
\* the header, every column's dtype is inferred from its texts.
read_csv(content) ==
    LET lines == SelectSeq(Split(content, NL), LAMBDA l : l # <<>>)
        cellsOf(l) == LET ps == Split(l, COMMA)
                      IN  [j \in 1..Len(ps) |-> IF ps[j] = <<>> THEN "" ELSE ps[j][1].s]
        header == cellsOf(lines[1])
        nrows == Len(lines) - 1
        cells == [i \in 1..nrows |-> cellsOf(lines[i + 1])]
        text(i, j) == IF j <= Len(cells[i]) THEN cells[i][j] ELSE ""
        dtypes == [j \in 1..Len(header) |-> CsvDtype({text(i, j) : i \in 1..nrows})]
        colset == {header[j] : j \in 1..Len(header)}
        idx == [f \in colset |-> CHOOSE j \in 1..Len(header) : header[j] = f]
    IN  IF lines = <<>>
        THEN [exc |-> "EmptyDataError"]
        ELSE [exc |-> "",
              df |-> [columns |-> header,
                      dtypes |-> [f \in colset |-> dtypes[idx[f]]],
                      rows |-> [i \in 1..nrows |->
                                   [f \in colset |->
                                       CsvValue(text(i, idx[f]), dtypes[idx[f]])]]]]

-----------------------------------------------------------------------------
(* JSON: json.dumps and json.loads *)

JsonLiteral(v) ==
    IF v.t = "str" THEN Tok("string", v.v)
    ELSE IF v.t = "NoneType" THEN Tok("literal", "null")
    ELSE Tok("number", IF v = NaN THEN "NaN" ELSE v.v)

JsonObject(r) ==
    LET ks == Keys(r)
    IN  <<LBRACE>>
        \o Join([j \in 1..Len(ks) |-> <<Tok("string", ks[j]), COLON, JsonLiteral(r[ks[j]])>>],
                COMMA)
        \o <<RBRACE>>

json_dumps(data) ==
    <<LBRACKET>> \o Join([i \in 1..Len(data) |-> JsonObject(data[i])], COMMA)
    \o <<RBRACKET>>

JsonValue(tok) ==
    IF tok.k = "string" THEN PyStr(tok.s)
    ELSE IF tok.k = "literal" THEN PyNone
    ELSE IF tok.s = "NaN" THEN NaN
    ELSE IF tok.s \in IntTexts THEN PyInt(tok.s)
    ELSE PyFloat(tok.s)

RECURSIVE JsonParse(_, _, _)
\* One pass over the tokens of an array of flat objects.  st.cur is the object
\* being read, st.key its pending key, st.val whether a value is expected.
JsonParse(toks, i, st) ==
    IF i > Len(toks) THEN st.recs
    ELSE LET t == toks[i]
             nxt == IF t = LBRACE THEN [st EXCEPT !.cur = <<>>, !.val = FALSE]
                    ELSE IF t = RBRACE THEN [st EXCEPT !.recs = Append(@, st.cur)]
                    ELSE IF t = COLON THEN [st EXCEPT !.val = TRUE]
                    ELSE IF t.k = "punct" THEN st
                    ELSE IF st.val
                         THEN [st EXCEPT !.cur = @ @@ (st.key :> JsonValue(t)),
                                         !.val = FALSE]
                    ELSE [st EXCEPT !.key = t.s]
         IN  JsonParse(toks, i + 1, nxt)

json_loads(content) ==
    JsonParse(content, 1, [recs |-> <<>>, cur |-> <<>>, key |-> "", val |-> FALSE])

-----------------------------------------------------------------------------
(* Parquet: DataFrame.to_parquet and pandas.read_parquet (pyarrow) *)

MAGIC == Tok("magic", "PAR1")
BAR == Tok("punct", "|")
SEMI == Tok("punct", ";")

IsNull(v) == v.t = "NoneType" \/ v = NaN

\* The Arrow type of a column; an object column must hold strings only.
ArrowType(df, f) ==
    LET present == {df.rows[i][f] : i \in 1..Len(df.rows)} \ {PyNone, NaN}
    IN  IF df.dtypes[f] = "int64" THEN "int64"
        ELSE IF df.dtypes[f] = "float64" THEN "double"
        ELSE IF present = {} THEN "null"
        ELSE IF \A v \in present : v.t = "str" THEN "string"
        ELSE "invalid"

ParquetCell(v, ty) == IF IsNull(v) THEN Tok("null", "") ELSE Tok(ty, v.v)

\* The bytes of a Parquet file: magic, schema, rows, magic; or the Arrow
\* conversion error of a column of mixed Python types.
to_parquet(df) ==
    LET cols == df.columns
        n == Len(cols)
        ty == [j \in 1..n |-> ArrowType(df, cols[j])]
        schema == Join([j \in 1..n |-> <<Tok("name", cols[j]), Tok("type", ty[j])>>],
                       COMMA)
        row(i) == [j \in 1..n |-> ParquetCell(df.rows[i][cols[j]], ty[j])]
    IN  IF \E j \in 1..n : ty[j] = "invalid"
        THEN [exc |-> "ArrowInvalid", bytes |-> <<>>]
        ELSE [exc |-> "",
              bytes |-> <<MAGIC>> \o schema \o <<BAR>>
                        \o Join([i \in 1..Len(df.rows) |-> row(i)], SEMI)
                        \o <<MAGIC>>]

ParquetDtype(ty) ==
    IF ty = "int64" THEN "int64" ELSE IF ty = "double" THEN "float64" ELSE "object"

ParquetValue(tok, ty) ==
    IF tok.k = "null" THEN (IF ty = "double" THEN NaN ELSE PyNone)
    ELSE IF ty = "int64" THEN PyInt(tok.s)
    ELSE IF ty = "double" THEN PyFloat(tok.s)
    ELSE PyStr(tok.s)

read_parquet(bytes) ==
    LET body == SubSeq(bytes, 2, Len(bytes) - 1)
        parts == Split(body, BAR)
        schema == Split(parts[1], COMMA)
        n == Len(schema)
        cols == [j \in 1..n |-> schema[j][1].s]
        ty == [j \in 1..n |-> schema[j][2].s]
        rws == IF parts[2] = <<>> THEN <<>> ELSE Split(parts[2], SEMI)
        colset == {cols[j] : j \in 1..n}
        idx == [f \in colset |-> CHOOSE j \in 1..n : cols[j] = f]
    IN  [columns |-> cols,
         dtypes |-> [f \in colset |-> ParquetDtype(ty[idx[f]])],
         rows |-> [i \in 1..Len(rws) |->
                      [f \in colset |-> ParquetValue(rws[i][idx[f]], ty[idx[f]])]]]

-----------------------------------------------------------------------------
(* FileProvider: the conversions *)

data_to_csv(data) == to_csv(DataFrame(data))

csv_to_data(content) ==
    LET r == read_csv(content)
    IN  IF r.exc # "" THEN [exc |-> r.exc, data |-> <<>>]
        ELSE [exc |-> "", data |-> to_dict_records(r.df)]

data_to_parquet(data) == DataFrame(data)

parquet_to_data(content) == to_dict_records(content)

data_to_json(data) == json_dumps(data)

json_to_data(content) == json_loads(content)
-----------------------------------------------------------------------------
(* FileProvider: configuration and arguments *)

\* class FileFormat(Enum); anything else passed as a format is not a member.
FileFormat == {"CSV", "PARQUET", "JSON"}
FormatArgs == FileFormat \cup {"invalid"}

\* file_format.name.lower()
Lower(fmt) ==
    IF fmt = "CSV" THEN "csv" ELSE IF fmt = "PARQUET" THEN "parquet" ELSE "json"

\* The local_directory and s3_config the provider is constructed with.
LocalDirectory == "data"
S3Config == [bucket |-> "test-bucket", key |-> "test-key", region |-> "us-west-2"]

\* File names passed to the calls, and the directory part of each.
Names == {"test", "sub/test"}
DirPart(name) == IF name = "sub/test" THEN "/sub" ELSE ""

\* A path that leaves the format's extension out.
LocalPath_noext(name, fmt) == LocalDirectory \o "/" \o name

\* os.path.join(self.local_directory, f"{file_name}.{file_format.name.lower()}")
LocalPath(name, fmt) == LocalDirectory \o "/" \o name \o "." \o Lower(fmt)

\* The directory open() needs to exist to create the file.
ParentDir(name) == LocalDirectory \o DirPart(name)

\* f"{self.s3_config['key']}/{file_name}.{file_format.name.lower()}"
S3Key(name, fmt) == S3Config.key \o "/" \o name \o "." \o Lower(fmt)

-----------------------------------------------------------------------------
(* Results of a call *)

NoRet == [some |-> FALSE, data |-> <<>>]
Ret(d) == [some |-> TRUE, data |-> d]

\* One I/O request issued by a call.
Ev(op, key) == [op |-> op, key |-> key]

World == [dirs |-> dirs, files |-> files, objects |-> objects, creds |-> creds]

\* The call ends with exception exc, having issued io and changed nothing.
Raise(w, exc, io) ==
    [dirs |-> w.dirs, files |-> w.files, objects |-> w.objects,
     exc |-> exc, ret |-> NoRet, io |-> io]

\* The call returns ret with the files and objects as given.
Return(w, fs, objs, ret, io) ==
    [dirs |-> w.dirs, files |-> fs, objects |-> objs,
     exc |-> "", ret |-> ret, io |-> io]

-----------------------------------------------------------------------------
(* FileProvider: the methods *)

\* A validation that lets every format argument through.
validate_file_format_any(fmt) == TRUE

\* _validate_file_format: TRUE when it returns, FALSE when it raises ValueError.
validate_file_format(fmt) == fmt \in FileFormat

\* A write that lands after what the file already holds (append mode).
WriteFile_append(fs, path, bytes) == (path :> (fs[path] \o bytes)) @@ fs

\* open(file_path, 'w'): the file is created, or truncated to nothing.
OpenW(fs, path) == (path :> <<>>) @@ fs

\* f.write(content) and the close that flushes it: one write (the content
\* fits the I/O buffer) at the start of the file, through a file object whose
\* position is 0.  What the file holds beyond the written length stays.
WriteFile(fs, path, bytes) ==
    (path :> (bytes \o SubSeq(fs[path], Len(bytes) + 1, Len(fs[path])))) @@ fs

\* A local save that opens the file in append mode: nothing is truncated.
save_to_local_append(w, name, content, fmt) ==
    LET path == LocalDirectory \o "/" \o name \o "." \o Lower(fmt)
        bytes == IF fmt = "PARQUET" THEN to_parquet(content).bytes ELSE content
        old == IF path \in DOMAIN w.files THEN w.files[path] ELSE <<>>
    IN  IF fmt \notin FileFormat THEN Raise(w, "ValueError", <<>>)
        ELSE IF fmt = "PARQUET" /\ to_parquet(content).exc # ""
             THEN Raise(w, to_parquet(content).exc, <<>>)
        ELSE IF LocalDirectory \o DirPart(name) \notin w.dirs
             THEN Raise(w, "FileNotFoundError", <<Ev("open_w", path)>>)
        ELSE Return(w, (path :> (old \o bytes)) @@ w.files, w.objects, NoRet,
                    <<Ev("open_w", path), Ev("write", path)>>)

\* open(file_path, 'w') then f.write(content); to_parquet(file_path) converts
\* the frame, then does the same.  open() fails when the file's directory does
\* not exist.
save_to_local(w, name, content, fmt) ==
    LET path == LocalPath(name, fmt)
        pq == to_parquet(content)
        bytes == IF fmt = "PARQUET" THEN pq.bytes ELSE content
        opened == <<Ev("open_w", path)>>
    IN  IF ~validate_file_format(fmt) THEN Raise(w, "ValueError", <<>>)
        ELSE IF fmt \notin FileFormat THEN Raise(w, "AttributeError", <<>>)
        ELSE IF fmt = "PARQUET" /\ pq.exc # "" THEN Raise(w, pq.exc, <<>>)
        ELSE IF ParentDir(name) \notin w.dirs
             THEN Raise(w, "FileNotFoundError", opened)
        ELSE Return(w, WriteFile(OpenW(w.files, path), path, bytes), w.objects,
                    NoRet, opened \o <<Ev("write", path)>>)

\* A local read that takes a missing file for an empty one.
retrieve_from_local_blank(w, name, fmt) ==
    LET path == LocalDirectory \o "/" \o name \o "." \o Lower(fmt)
        bytes == IF path \in DOMAIN w.files THEN w.files[path] ELSE <<>>
    IN  IF fmt \notin FileFormat
        THEN [exc |-> "ValueError", content |-> <<>>, io |-> <<>>]
        ELSE [exc |-> "",
              content |-> IF fmt = "PARQUET" /\ bytes # <<>> THEN read_parquet(bytes)
                          ELSE IF fmt = "PARQUET" THEN DataFrame(<<>>)
                          ELSE bytes,
              io |-> <<Ev("open_r", path), Ev("read", path)>>]

\* open(file_path, 'r') and f.read(), or pd.read_parquet(file_path).
retrieve_from_local(w, name, fmt) ==
    LET path == LocalPath(name, fmt)
        opened == <<Ev("open_r", path)>>
    IN  IF ~validate_file_format(fmt)
        THEN [exc |-> "ValueError", content |-> <<>>, io |-> <<>>]
        ELSE IF fmt \notin FileFormat
             THEN [exc |-> "AttributeError", content |-> <<>>, io |-> <<>>]
        ELSE IF path \notin DOMAIN w.files
             THEN [exc |-> "FileNotFoundError", content |-> <<>>, io |-> opened]
        ELSE [exc |-> "",
              content |-> IF fmt = "PARQUET" THEN read_parquet(w.files[path])
                          ELSE w.files[path],
              io |-> opened \o <<Ev("read", path)>>]

\* s3.put_object(Bucket, Key, Body): the object is replaced whole.
PutObject(objs, key, body) == (key :> body) @@ objs

\* An S3 save that tries the put a second time when credentials are missing.
save_to_s3_retry(w, name, content, fmt) ==
    LET key == S3Config.key \o "/" \o name \o "." \o Lower(fmt)
        pq == to_parquet(content)
        body == IF fmt = "PARQUET" THEN pq.bytes ELSE content
        put == <<Ev("put_object", key)>>
    IN  IF fmt \notin FileFormat THEN Raise(w, "ValueError", <<>>)
        ELSE IF fmt = "PARQUET" /\ pq.exc # "" THEN Raise(w, pq.exc, <<>>)
        ELSE IF ~w.creds
             THEN Raise(w, "Exception: S3 credentials not available", put \o put)
        ELSE Return(w, w.files, PutObject(w.objects, key, body), NoRet, put)

\* One put_object; NoCredentialsError is caught and raised again as Exception.
save_to_s3(w, name, content, fmt) ==
    LET key == S3Key(name, fmt)
        pq == to_parquet(content)
        body == IF fmt = "PARQUET" THEN pq.bytes ELSE content
        put == <<Ev("put_object", key)>>
    IN  IF ~validate_file_format(fmt) THEN Raise(w, "ValueError", <<>>)
        ELSE IF fmt \notin FileFormat THEN Raise(w, "AttributeError", <<>>)
        ELSE IF fmt = "PARQUET" /\ pq.exc # "" THEN Raise(w, pq.exc, <<>>)
        ELSE IF ~w.creds THEN Raise(w, "Exception: S3 credentials not available", put)
        ELSE Return(w, w.files, PutObject(w.objects, key, body), NoRet, put)

\* One get_object; a missing key is botocore's ClientError (NoSuchKey), which
\* is not caught; the Body is read as UTF-8 text or by pd.read_parquet.
retrieve_from_s3(w, name, fmt) ==
    LET key == S3Key(name, fmt)
        get == <<Ev("get_object", key)>>
    IN  IF ~validate_file_format(fmt)
        THEN [exc |-> "ValueError", content |-> <<>>, io |-> <<>>]
        ELSE IF fmt \notin FileFormat
             THEN [exc |-> "AttributeError", content |-> <<>>, io |-> <<>>]
        ELSE IF ~w.creds
             THEN [exc |-> "Exception: S3 credentials not available",
                   content |-> <<>>, io |-> get]
        ELSE IF key \notin DOMAIN w.objects
             THEN [exc |-> "ClientError: NoSuchKey", content |-> <<>>, io |-> get]
        ELSE [exc |-> "",
              content |-> IF fmt = "PARQUET" THEN read_parquet(w.objects[key])
                          ELSE w.objects[key],
              io |-> get]

\* The content save_file hands to the backend.
Encode(data, fmt) ==
    IF fmt = "CSV" THEN data_to_csv(data)
    ELSE IF fmt = "PARQUET" THEN data_to_parquet(data)
    ELSE data_to_json(data)

save_file(self, w, name, data, fmt) ==
    IF ~validate_file_format(fmt) THEN Raise(w, "ValueError", <<>>)
    ELSE IF fmt \notin FileFormat THEN Raise(w, "UnboundLocalError", <<>>)
    ELSE IF self.s3_config THEN save_to_s3(w, name, Encode(data, fmt), fmt)
    ELSE save_to_local(w, name, Encode(data, fmt), fmt)

\* An update that insists on the key being there already (it reads first).
update_file_existing(self, w, name, data, fmt) ==
    LET r == IF self.s3_config THEN retrieve_from_s3(w, name, fmt)
             ELSE retrieve_from_local(w, name, fmt)
        s == save_file(self, w, name, data, fmt)
    IN  IF fmt \notin FileFormat THEN Raise(w, "ValueError", <<>>)
        ELSE IF r.exc # "" THEN Raise(w, r.exc, r.io)
        ELSE [s EXCEPT !.io = r.io \o s.io]

update_file(self, w, name, data, fmt) ==
    IF ~validate_file_format(fmt) THEN Raise(w, "ValueError", <<>>)
    ELSE save_file(self, w, name, data, fmt)

retrieve_file(self, w, name, fmt) ==
    LET r == IF self.s3_config THEN retrieve_from_s3(w, name, fmt)
             ELSE retrieve_from_local(w, name, fmt)
        csv == csv_to_data(r.content)
    IN  IF ~validate_file_format(fmt) THEN Raise(w, "ValueError", <<>>)
        ELSE IF r.exc # "" THEN Raise(w, r.exc, r.io)
        ELSE IF fmt = "CSV"
             THEN IF csv.exc # "" THEN Raise(w, csv.exc, r.io)
                  ELSE Return(w, w.files, w.objects, Ret(csv.data), r.io)
        ELSE IF fmt = "PARQUET"
             THEN Return(w, w.files, w.objects, Ret(parquet_to_data(r.content)), r.io)
        ELSE Return(w, w.files, w.objects, Ret(json_to_data(r.content)), r.io)

\* boto3.client('s3', region_name=...): without resolvable credentials the
\* client either raises NoCredentialsError here or is created and raises it
\* at the first request.
boto3_client(w) == IF w.creds THEN {""} ELSE {"", "NoCredentialsError"}

\* __init__: the outcomes of constructing a provider.
FileProviderInit(w, s3_config) ==
    IF s3_config
    THEN {IF e = "" THEN Return(w, w.files, w.objects, NoRet, <<Ev("client", S3Config.region)>>)
          ELSE Raise(w, e, <<Ev("client", S3Config.region)>>) : e \in boto3_client(w)}
    ELSE {[Return(w, w.files, w.objects, NoRet, <<Ev("makedirs", LocalDirectory)>>)
             EXCEPT !.dirs = w.dirs \cup {LocalDirectory}]}
-----------------------------------------------------------------------------
(* Calls made one after the other on one provider *)

Call(op, name, data, fmt, r) ==
    [op |-> op, name |-> name, data |-> data, fmt |-> fmt,
     exc |-> r.exc, ret |-> r.ret, io |-> r.io]

NoCall == [op |-> "none", name |-> "", data |-> <<>>, fmt |-> "",
           exc |-> "", ret |-> NoRet, io |-> <<>>]

\* Directories that may exist before the provider is constructed.
InitialDirs ==
    {{}, {LocalDirectory}, {LocalDirectory, LocalDirectory \o DirPart("sub/test")}}

Init ==
    /\ dirs \in InitialDirs
    /\ files = <<>>
    /\ objects = <<>>
    /\ creds \in BOOLEAN
    /\ provider = [made |-> FALSE, s3_config |-> FALSE]
    /\ last = NoCall
    /\ ncalls = 0
    /\ writers = <<>>
    /\ order = <<>>

\* The effect of a finished call on the filesystem and the bucket.
Effect(r) ==
    /\ dirs' = r.dirs
    /\ files' = r.files
    /\ objects' = r.objects

\* FileProvider(s3_config=...) or FileProvider(): no instance when it raises.
Construct ==
    /\ ~provider.made
    /\ \E s3 \in BOOLEAN : \E r \in FileProviderInit(World, s3) :
          /\ Effect(r)
          /\ provider' = IF r.exc = "" THEN [made |-> TRUE, s3_config |-> s3]
                         ELSE provider
          /\ last' = Call("init", "", <<>>, "", r)
    /\ UNCHANGED <<creds, ncalls, writers, order>>

SaveFile ==
    /\ provider.made
    /\ ncalls < MaxCalls
    /\ \E name \in Names, data \in Datasets, fmt \in FormatArgs :
          LET r == save_file(provider, World, name, data, fmt)
          IN  /\ Effect(r)
              /\ last' = Call("save", name, data, fmt, r)
    /\ ncalls' = ncalls + 1
    /\ UNCHANGED <<creds, provider, writers, order>>

UpdateFile ==
    /\ provider.made
    /\ ncalls < MaxCalls
    /\ \E name \in Names, data \in Datasets, fmt \in FormatArgs :
          LET r == update_file(provider, World, name, data, fmt)
          IN  /\ Effect(r)
              /\ last' = Call("update", name, data, fmt, r)
    /\ ncalls' = ncalls + 1
    /\ UNCHANGED <<creds, provider, writers, order>>

RetrieveFile ==
    /\ provider.made
    /\ ncalls < MaxCalls
    /\ \E name \in Names, fmt \in FormatArgs :
          LET r == retrieve_file(provider, World, name, fmt)
          IN  /\ Effect(r)
              /\ last' = Call("retrieve", name, <<>>, fmt, r)
    /\ ncalls' = ncalls + 1
    /\ UNCHANGED <<creds, provider, writers, order>>

Next == Construct \/ SaveFile \/ UpdateFile \/ RetrieveFile

Spec == Init /\ [][Next]_vars
-----------------------------------------------------------------------------
(* Two save_file calls on the same key running concurrently *)

Writers == {1, 2}

\* The bytes a save_file call with a valid format has to store, or the
\* exception its conversion raises.
Payload(data, fmt) ==
    IF fmt = "PARQUET" THEN to_parquet(Encode(data, fmt))
    ELSE [exc |-> "", bytes |-> Encode(data, fmt)]

RaceKey == "test"

\* A provider of either backend, already constructed, with credentials; the
\* key is absent or holds what an earlier save left; each writer is given its
\* own dataset, and both the same name and format.
InitRace ==
    /\ dirs = {LocalDirectory}
    /\ creds = TRUE
    /\ provider \in {[made |-> TRUE, s3_config |-> b] : b \in BOOLEAN}
    /\ last = NoCall
    /\ ncalls = 0
    /\ order = <<>>
    /\ \E fmt \in FileFormat :
          /\ writers \in [Writers -> {[pc |-> "start", name |-> RaceKey, data |-> d,
                                       fmt |-> fmt, bytes |-> <<>>] : d \in Datasets}]
          /\ \E before \in {<<>>} \cup
                           {Payload(d, fmt).bytes : d \in {e \in Datasets : Payload(e, fmt).exc = ""}} :
                IF before = <<>> THEN files = <<>> /\ objects = <<>>
                ELSE IF provider.s3_config
                     THEN files = <<>> /\ objects = (S3Key(RaceKey, fmt) :> before)
                ELSE files = (LocalPath(RaceKey, fmt) :> before) /\ objects = <<>>

\* save_file up to the backend call: validation and conversion.
RaceEncode(i) ==
    /\ writers[i].pc = "start"
    /\ LET p == Payload(writers[i].data, writers[i].fmt)
       IN  writers' = [writers EXCEPT ![i].pc = IF p.exc = "" THEN "encoded" ELSE "failed",
                                      ![i].bytes = p.bytes]
    /\ UNCHANGED <<dirs, files, objects, creds, provider, last, ncalls, order>>

\* _save_to_local: open(file_path, 'w').
RaceOpen(i) ==
    /\ writers[i].pc = "encoded"
    /\ ~provider.s3_config
    /\ files' = OpenW(files, LocalPath(writers[i].name, writers[i].fmt))
    /\ writers' = [writers EXCEPT ![i].pc = "opened"]
    /\ UNCHANGED <<dirs, objects, creds, provider, last, ncalls, order>>

\* _save_to_local: f.write(content) and the end of the with block.
RaceWrite(i) ==
    /\ writers[i].pc = "opened"
    /\ files' = WriteFile(files, LocalPath(writers[i].name, writers[i].fmt),
                          writers[i].bytes)
    /\ writers' = [writers EXCEPT ![i].pc = "done"]
    /\ order' = Append(order, i)
    /\ UNCHANGED <<dirs, objects, creds, provider, last, ncalls>>

\* _save_to_s3: the put_object request.
RacePut(i) ==
    /\ writers[i].pc = "encoded"
    /\ provider.s3_config
    /\ objects' = PutObject(objects, S3Key(writers[i].name, writers[i].fmt),
                            writers[i].bytes)
    /\ writers' = [writers EXCEPT ![i].pc = "done"]
    /\ order' = Append(order, i)
    /\ UNCHANGED <<dirs, files, creds, provider, last, ncalls>>

NextRace ==
    \E i \in Writers : RaceEncode(i) \/ RaceOpen(i) \/ RaceWrite(i) \/ RacePut(i)

SpecRace == InitRace /\ [][NextRace]_vars
-----------------------------------------------------------------------------
(* Properties *)

\* This step is a save/update/retrieve call (last' describes it).
IsCall == ncalls' = ncalls + 1

StoreUnchanged == dirs' = dirs /\ files' = files /\ objects' = objects

\* This step is a retrieve_file(name, fmt) that directly follows a successful
\* save_file(name, D, fmt) on the same provider.
SavedThenRetrieved(fmt) ==
    /\ IsCall
    /\ last.op = "save" /\ last.exc = "" /\ last.fmt = fmt
    /\ last'.op = "retrieve" /\ last'.name = last.name /\ last'.fmt = fmt

\* C1: a successful save_file(name, D, F) followed by retrieve_file(name, F)
\* returns a dataset equal to D, for every format and on both backends.
C1_RoundTrip ==
    [][\A fmt \in FileFormat :
          SavedThenRetrieved(fmt) =>
             /\ last'.exc = ""
             /\ last'.ret.some
             /\ DataEq(last'.ret.data, last.data)]_vars

\* C2: a format argument that is no FileFormat member makes save_file,
\* update_file and retrieve_file raise ValueError before any I/O: nothing is
\* opened, put or got, and the filesystem and the bucket are unchanged.
C2_InvalidFormatRejected ==
    [][(IsCall /\ last'.fmt \notin FileFormat) =>
          /\ last'.exc = "ValueError"
          /\ last'.io = <<>>
          /\ ~last'.ret.some
          /\ StoreUnchanged]_vars

C2_Witness ==
    /\ last.op = "retrieve" /\ last.fmt = "invalid" /\ last.exc = "ValueError"
    /\ provider.s3_config
    /\ DOMAIN objects # {}

\* C3: retrieve_file with a valid format on a key that holds nothing fails
\* with the backend's not-found error (FileNotFoundError locally, the missing
\* key reported by S3 remotely), returns no dataset and changes nothing.
C3_MissingKeyNotFound ==
    [][(/\ IsCall
        /\ last'.op = "retrieve"
        /\ last'.fmt \in FileFormat
        /\ IF provider.s3_config
           THEN creds /\ S3Key(last'.name, last'.fmt) \notin DOMAIN objects
           ELSE LocalPath(last'.name, last'.fmt) \notin DOMAIN files) =>
          /\ last'.exc = IF provider.s3_config THEN "ClientError: NoSuchKey"
                         ELSE "FileNotFoundError"
          /\ ~last'.ret.some
          /\ StoreUnchanged]_vars

C3_Witness ==
    /\ last.op = "retrieve" /\ last.fmt \in FileFormat
    /\ last.exc = "FileNotFoundError"
    /\ DOMAIN files # {}

DataRequests == {"put_object", "get_object", "open_w", "open_r", "write", "read"}

\* C4: when the S3 client cannot resolve credentials the operation fails at
\* once and is not retried: a construction whose client creation raises makes
\* no provider and issues no data request; a save_file, update_file or
\* retrieve_file whose request finds no credentials issues that one put or get,
\* raises, and leaves the bucket as it was.
C4_CredentialsFailFast ==
    [][/\ (~provider.made /\ last'.op = "init" /\ last'.exc = "NoCredentialsError") =>
             /\ ~provider'.made
             /\ \A j \in 1..Len(last'.io) : last'.io[j].op \notin DataRequests
             /\ StoreUnchanged
       /\ (IsCall /\ provider.s3_config /\ ~creds /\ last'.io # <<>>) =>
             /\ last'.exc = "Exception: S3 credentials not available"
             /\ Len(last'.io) = 1
             /\ last'.io[1].op \in {"put_object", "get_object"}
             /\ ~last'.ret.some
             /\ StoreUnchanged]_vars

C4_Witness ==
    /\ last.op = "save"
    /\ last.exc = "Exception: S3 credentials not available"
    /\ Len(last.io) = 1

\* C5: update_file behaves exactly as save_file with the same arguments from
\* the same state: same exception or success, same requests issued (none of
\* them a read), same resulting filesystem and bucket.
C5_UpdateIsSave ==
    [][(IsCall /\ last'.op = "update") =>
          LET r == save_file(provider, World, last'.name, last'.data, last'.fmt)
          IN  /\ last'.exc = r.exc
              /\ last'.ret = r.ret
              /\ last'.io = r.io
              /\ \A j \in 1..Len(last'.io) :
                    last'.io[j].op \notin {"open_r", "read", "get_object"}
              /\ dirs' = r.dirs /\ files' = r.files /\ objects' = r.objects]_vars

C5_Witness ==
    /\ last.op = "update" /\ last.exc = "" /\ ncalls = 2
    /\ DOMAIN files # {}

\* C6: save_file is idempotent: in the state a save_file call has left, the
\* same call made again ends the same way and leaves the same directories,
\* files and objects (same keys, same content at every key), and every
\* retrieve_file gives the same result after two saves as after one.
C6_SaveIdempotent ==
    last.op = "save" =>
        LET r == save_file(provider, World, last.name, last.data, last.fmt)
            w2 == [dirs |-> r.dirs, files |-> r.files, objects |-> r.objects,
                   creds |-> creds]
        IN  /\ r.exc = last.exc
            /\ r.dirs = dirs /\ r.files = files /\ r.objects = objects
            /\ \A name \in Names, fmt \in FormatArgs :
                  LET a == retrieve_file(provider, World, name, fmt)
                      b == retrieve_file(provider, w2, name, fmt)
                  IN  a.exc = b.exc /\ a.ret = b.ret

C6_Witness ==
    /\ last.op = "save" /\ last.exc = "" /\ ~provider.s3_config
    /\ LocalPath(last.name, last.fmt) \in DOMAIN files

\* Every value of the dataset turned into its string.
Stringified(data) ==
    [i \in 1..Len(data) |-> [f \in DOMAIN data[i] |-> PyStr(data[i][f].v)]]

IntColumn(data, f) ==
    \A i \in 1..Len(data) : f \in DOMAIN data[i] /\ data[i][f].t = "int"

\* Column f holds some string that reads neither as a number nor as missing.
TextColumn(data, f) ==
    \E i \in 1..Len(data) :
        /\ f \in DOMAIN data[i]
        /\ data[i][f].t = "str"
        /\ data[i][f].v \notin IntTexts \cup FloatTexts \cup NaTexts

BothDone == \A i \in Writers : writers[i].pc = "done"

\* What the contended key holds.
RaceStored ==
    IF provider.s3_config THEN objects[S3Key(RaceKey, writers[1].fmt)]
    ELSE files[LocalPath(RaceKey, writers[1].fmt)]

\* The bytes of the writer whose write or put completed last, and the other's.
RaceLast == writers[order[Len(order)]].bytes
RaceFirst == writers[order[1]].bytes

\* C8 as stated: once two concurrent save_file calls to one key have both
\* completed, the key holds exactly the content of the call whose write
\* completed last, never a mixture of the two contents.
C8_LastWriterWins == BothDone => RaceStored = RaceLast

\* C8 amended: on S3 the key holds exactly the content of the put that
\* completed last.  On the local backend, for CSV and JSON text written by one
\* write each, the file starts with the content written last and, when the
\* other call wrote a longer content after the last open, goes on with the
\* rest of that other content: a mixture of the two.
C8_LastWriterPrefix ==
    BothDone =>
        IF provider.s3_config THEN RaceStored = RaceLast
        ELSE writers[1].fmt # "PARQUET" =>
                RaceStored \in
                   {RaceLast,
                    RaceLast \o SubSeq(RaceFirst, Len(RaceLast) + 1, Len(RaceFirst))}

C8_Witness ==
    /\ BothDone
    /\ ~provider.s3_config
    /\ writers[1].fmt = "JSON"
    /\ RaceStored # RaceLast
    /\ RaceStored # RaceFirst

\* C9: on the local backend a save_file with a valid format never fails for
\* want of the target's directory: the directory exists once the call is over.
C9_SaveCreatesDirectory ==
    (/\ last.op = "save"
     /\ provider.made /\ ~provider.s3_config
     /\ last.fmt \in FileFormat) =>
        /\ last.exc # "FileNotFoundError"
        /\ last.exc = "" => ParentDir(last.name) \in dirs

\* The key the claim names: <directory or key prefix>/<name>.<format in lower case>.
C10_Key(name, fmt) ==
    (IF provider.s3_config THEN "test-key" ELSE "data") \o "/" \o name \o "."
    \o (CASE fmt = "CSV" -> "csv" [] fmt = "PARQUET" -> "parquet"
          [] fmt = "JSON" -> "json" [] OTHER -> "")

\* f and g agree (presence and content) everywhere but at key k.
SameButAt(f, g, k) ==
    \A p \in (DOMAIN f \cup DOMAIN g) \ {k} :
        p \in DOMAIN f /\ p \in DOMAIN g /\ f[p] = g[p]

\* C10: a save_file or update_file changes nothing but the one key
\* <directory or key prefix>/<name>.<format> of the provider's own backend;
\* retrieve_file changes no stored content; no call changes the provider's
\* configuration or the directories.
C10_Frame ==
    [][IsCall =>
          /\ provider' = provider
          /\ dirs' = dirs
          /\ last'.op \in {"save", "update"} =>
                IF provider.s3_config
                THEN /\ files' = files
                     /\ SameButAt(objects, objects', C10_Key(last'.name, last'.fmt))
                ELSE /\ objects' = objects
                     /\ SameButAt(files, files', C10_Key(last'.name, last'.fmt))
          /\ last'.op = "retrieve" => files' = files /\ objects' = objects]_vars

C10_Witness ==
    /\ last.op = "save" /\ last.exc = ""
    /\ Cardinality(DOMAIN objects) = 2

====
